---- MODULE Spec2Model ----
(***************************************************************************)
(* EyeWidthMeasurement (scopeprotocols/EyeWidthMeasurement.cpp): the       *)
(* filter that measures the width of an eye opening per voltage slice.     *)
(*                                                                         *)
(* Numbers.  float/double values are modelled as exact rationals <<n, d>>  *)
(* in lowest terms with d > 0 (binary rounding error is not modelled).     *)
(* Voltages are given in millivolts and held in volts, <<mv, 1000>>.       *)
(* Raster cells are held in units of FLT_EPSILON.  size_t and int64_t are  *)
(* narrowed to WordBits bits, the arithmetic being taken modulo            *)
(* 2^WordBits exactly as the 64 bit arithmetic is taken modulo 2^64.       *)
(***************************************************************************)
EXTENDS Integers, Sequences, FiniteSets, TLC

VARIABLES m_inputs0, din, m_parameters, waveform, m_value, last, vc

vars == <<m_inputs0, din, m_parameters, waveform, m_value, last, vc>>

filterVars == <<m_inputs0, din, m_parameters, waveform, m_value>>

----------------------------------------------------------------------------
\* Bounds of the model

MaxHeight == 3

MaxWidth == 5

MaxVolt == 3

UiWidthFs == 5

WordBits == 16

----------------------------------------------------------------------------
\* Program constants

MilliPerVolt == 1000

ber_max == 1

----------------------------------------------------------------------------
\* Exact rational arithmetic standing for float/double arithmetic

Min(a, b) == IF a < b THEN a ELSE b

Max(a, b) == IF a > b THEN a ELSE b

Abs(a) == IF a < 0 THEN -a ELSE a

RECURSIVE GCD(_, _)
GCD(a, b) == IF b = 0 THEN a ELSE GCD(b, a % b)

Norm(n, d) ==
    LET g == GCD(Abs(n), d)
    IN  <<n \div g, d \div g>>

Rat(n) == <<n, 1>>

RAdd(a, b) == Norm(a[1] * b[2] + b[1] * a[2], a[2] * b[2])

RSub(a, b) == Norm(a[1] * b[2] - b[1] * a[2], a[2] * b[2])

RMul(a, b) == Norm(a[1] * b[1], a[2] * b[2])

RDiv(a, b) ==
    IF b[1] > 0 THEN Norm(a[1] * b[2], a[2] * b[1])
    ELSE Norm(-(a[1] * b[2]), -(a[2] * b[1]))

RGt(a, b) == a[1] * b[2] > b[1] * a[2]

RGe(a, b) == a[1] * b[2] >= b[1] * a[2]

\* round(): to the nearest integer, halfway cases away from zero
Round(a) ==
    IF a[1] >= 0 THEN (2 * a[1] + a[2]) \div (2 * a[2])
    ELSE -((2 * (-a[1]) + a[2]) \div (2 * a[2]))

Volts(mv) == Norm(mv, MilliPerVolt)

----------------------------------------------------------------------------
\* Machine integers

WordMod == 2 ^ WordBits

INT64_MAX == 2 ^ (WordBits - 1) - 1

INT64_MIN == -(2 ^ (WordBits - 1))

\* What a build makes of float -> size_t for a negative value (undefined
\* behaviour): the x86-64 cvttss2si sequence wraps modulo the word size,
\* AArch64 fcvtzu saturates at 0.
ConvOutcomes == {"wrap", "saturate"}

ToSizeT(r, conv) ==
    IF r >= 0 THEN r % WordMod
    ELSE IF conv = "wrap" THEN r % WordMod
    ELSE 0

\* far_right - far_left in int64_t.  Outside the range the subtraction is
\* undefined: two's complement wrap, or the difference as widened arithmetic
\* gives it.
SignedSubOutcomes(a, b) ==
    IF a - b >= INT64_MIN /\ a - b <= INT64_MAX THEN {a - b}
    ELSE {((a - b - INT64_MIN) % WordMod) + INT64_MIN, a - b}

----------------------------------------------------------------------------
\* Values of the state

NullStream == [m_channel |-> "NULL", type |-> "NONE", vrange |-> 0]

StreamTypes == {"EYE", "ANALOG", "ANALOG_SCALAR"}

VoltageRanges == {2, 4}

Streams ==
    {NullStream} \cup
    {[m_channel |-> "ch", type |-> t, vrange |-> 4] : t \in StreamTypes}

NoData == [k \in {} |-> 0]

NoEye ==
    [present |-> FALSE, height |-> 0, width |-> 0, center |-> 0, uiWidth |-> 0,
     data |-> NoData]

Eye(h, w, c, d) ==
    [present |-> TRUE, height |-> h, width |-> w, center |-> c, uiWidth |-> UiWidthFs,
     data |-> d]

NullWaveform == [null |-> TRUE, offsets |-> <<>>, durations |-> <<>>, samples |-> <<>>]

NaN == [nan |-> TRUE, val |-> Rat(0)]

Scalar(v) == [nan |-> FALSE, val |-> v]

NoTrace ==
    [ran |-> FALSE, ok |-> FALSE, prevOK |-> FALSE, paramsRead |-> FALSE,
     eye |-> NoEye, vrange |-> 0, vstart |-> 0, vend |-> 0,
     start_bin |-> 0, end_bin |-> 0, rows |-> <<>>, reads |-> {}]

NoCall == [called |-> FALSE, i |-> 0, stream |-> NullStream, result |-> FALSE]

\* Every raster of the given shape whose cells are at the bit-error threshold
\* or just above it
Rasters(h, w) == [0..(h * w - 1) -> {ber_max, ber_max + 1}]

\* A raster whose every cell holds v
Uniform(h, w, v) == [k \in 0..(h * w - 1) |-> v]

EyeStream(r) == [m_channel |-> "ch", type |-> "EYE", vrange |-> r]

Millivolts == (-MaxVolt)..MaxVolt

\* Thresholds, centre, range and height vary; the raster is empty or full.
GeometryCases ==
    {[stream |-> EyeStream(r), eye |-> Eye(h, w, c, Uniform(h, w, v)),
      params |-> [start |-> a, end |-> b]] :
        r \in VoltageRanges, h \in 1..MaxHeight, w \in {3}, c \in {0, 1},
        v \in {0, ber_max + 1}, a \in Millivolts, b \in Millivolts}

\* The raster varies over every content of one or two rows; the thresholds
\* select both rows, the upper row or the lower row.
RasterCases ==
    UNION {{[stream |-> EyeStream(4), eye |-> Eye(h, w, 0, d), params |-> p] :
               d \in Rasters(h, w), p \in {[start |-> -2, end |-> 2],
                                           [start |-> 2, end |-> 0],
                                           [start |-> -2, end |-> -2]}} :
           h \in {1, 2}, w \in 1..MaxWidth}

\* The input bound but without data
NoDataCases ==
    {[stream |-> EyeStream(r), eye |-> NoEye, params |-> [start |-> 0, end |-> 0]] :
        r \in VoltageRanges}

RefreshCases == GeometryCases \cup RasterCases \cup NoDataCases

LifecycleEyes ==
    {Eye(2, 3, 0, Uniform(2, 3, 0)), Eye(2, 3, 0, [k \in 0..5 |-> IF k = 1 THEN 0 ELSE 2])}

LifecycleVolts == {-MaxVolt, 0}

----------------------------------------------------------------------------
\* EyeWidthMeasurement::ValidateChannel

ValidateChannel_anyIndex(i, stream) ==
    IF stream.m_channel = "NULL" THEN FALSE
    ELSE IF stream.type = "EYE" THEN TRUE
    ELSE FALSE

ValidateChannel(i, stream) ==
    IF stream.m_channel = "NULL" THEN FALSE
    ELSE IF (i = 0) /\ (stream.type = "EYE") THEN TRUE
    ELSE FALSE

----------------------------------------------------------------------------
\* Collaborators of the filter base class

VerifyAllInputsOK == m_inputs0.m_channel # "NULL" /\ din.present

SetupEmptySparseAnalogOutputWaveform ==
    [null |-> FALSE, offsets |-> <<>>, durations |-> <<>>, samples |-> <<>>]

----------------------------------------------------------------------------
\* EyeWidthMeasurement::Refresh, the missing-input branch

OnMissingInput_keepData(wf, val) == [wf |-> wf, val |-> NaN]

OnMissingInput(wf, val) == [wf |-> NullWaveform, val |-> NaN]

----------------------------------------------------------------------------
\* EyeWidthMeasurement::Refresh, thresholds to rows

SortVoltages(vstart, vend) ==
    IF RGt(vstart, vend) THEN <<vend, vstart>> ELSE <<vstart, vend>>

VoltsPerRow(vrange, height) == RDiv(vrange, Rat(height))

VoltsAtBottom(center, vrange) == RSub(center, RDiv(vrange, Rat(2)))

RowOf(v, volts_at_bottom, volts_per_row) ==
    Round(RDiv(RSub(v, volts_at_bottom), volts_per_row))

ClampBin(bin, height) == Min(bin, (height - 1) % WordMod)

----------------------------------------------------------------------------
\* EyeWidthMeasurement::Refresh, the scan of one row

Occupied_atThreshold(v) == v >= ber_max

Occupied(v) == v > ber_max

\* row[x] with row = data + i*w.  The raster holds height*width cells; a read
\* past the buffer has no defined value and is given 0 here.
ReadCell(data, idx) == IF idx \in DOMAIN data THEN data[idx] ELSE 0

ScanContinues_inclusive(dx, xcenter) == dx <= xcenter

ScanContinues(dx, xcenter) == dx < xcenter

RECURSIVE ScanFrom(_, _, _, _, _)
ScanFrom(data, base, xcenter, dx, acc) ==
    IF ~ScanContinues(dx, xcenter) THEN acc
    ELSE
        LET xl == xcenter - dx
            cl == IF Occupied(ReadCell(data, base + xl)) THEN Max(acc.cleft, xl)
                  ELSE acc.cleft
            xr == xcenter + dx
            cr == IF Occupied(ReadCell(data, base + xr)) THEN Min(acc.cright, xr)
                  ELSE acc.cright
        IN  ScanFrom(data, base, xcenter, dx + 1,
                     [cleft |-> cl, cright |-> cr, reads |-> acc.reads \cup {xl, xr}])

ScanStart_skipCentre == 0 + 1

ScanStart == 0

ScanRow(eye, i) ==
    LET w == eye.width
    IN  ScanFrom(eye.data, i * w, w \div 2, ScanStart,
                 [cleft |-> 0, cright |-> w - 1, reads |-> {}])

----------------------------------------------------------------------------
\* EyeWidthMeasurement::Refresh, the loop over the rows

FsPerPixel(eye) == RDiv(Rat(2 * eye.uiWidth), Rat(eye.width))

SampleOffset(i, duration_mv, base_mv) == Round(RAdd(RMul(Rat(i), duration_mv), base_mv))

SampleDuration(duration_mv) == Round(duration_mv)

SampleValue(fs_per_pixel, cleft, cright) == RMul(fs_per_pixel, Rat(cright - cleft))

FarLeft_max(far_left, cleft) == Max(far_left, cleft)

FarLeft(far_left, cleft) == Min(far_left, cleft)

FarRight(far_right, cright) == Max(far_right, cright)

RECURSIVE RowLoop(_, _, _, _)
RowLoop(ctx, i, end_bin, acc) ==
    IF ~(i <= end_bin) THEN acc
    ELSE
        LET s == ScanRow(ctx.eye, i)
        IN  RowLoop(ctx, i + 1, end_bin,
                [far_left |-> FarLeft(acc.far_left, s.cleft),
                 far_right |-> FarRight(acc.far_right, s.cright),
                 offsets |-> Append(acc.offsets, SampleOffset(i, ctx.duration_mv, ctx.base_mv)),
                 durations |-> Append(acc.durations, SampleDuration(ctx.duration_mv)),
                 samples |-> Append(acc.samples,
                                    SampleValue(ctx.fs_per_pixel, s.cleft, s.cright)),
                 rows |-> Append(acc.rows, [i |-> i, cleft |-> s.cleft, cright |-> s.cright]),
                 reads |-> acc.reads \cup {<<i, x>> : x \in s.reads}])

\* The whole successful path up to the scalar: conv is what the build makes
\* of the two float -> size_t conversions.
RefreshBody(stream, eye, params, cap, conv) ==
    LET sorted == SortVoltages(Volts(params.start), Volts(params.end))
        vrange == Volts(stream.vrange)
        volts_per_row == VoltsPerRow(vrange, eye.height)
        volts_at_bottom == VoltsAtBottom(Volts(eye.center), vrange)
        start_bin == ClampBin(ToSizeT(RowOf(sorted[1], volts_at_bottom, volts_per_row), conv),
                              eye.height)
        end_bin == ClampBin(ToSizeT(RowOf(sorted[2], volts_at_bottom, volts_per_row), conv),
                            eye.height)
        ctx == [eye |-> eye,
                duration_mv |-> RMul(volts_per_row, Rat(MilliPerVolt)),
                base_mv |-> RMul(volts_at_bottom, Rat(MilliPerVolt)),
                fs_per_pixel |-> FsPerPixel(eye)]
        loop == RowLoop(ctx, start_bin, end_bin,
                    [far_left |-> INT64_MAX, far_right |-> INT64_MIN,
                     offsets |-> cap.offsets, durations |-> cap.durations,
                     samples |-> cap.samples, rows |-> <<>>, reads |-> {}])
    IN  [start_bin |-> start_bin, end_bin |-> end_bin, loop |-> loop,
         fs_per_pixel |-> ctx.fs_per_pixel]

Refresh ==
    /\ IF ~VerifyAllInputsOK
       THEN LET out == OnMissingInput(waveform, m_value)
            IN  /\ waveform' = out.wf
                /\ m_value' = out.val
                /\ last' = [NoTrace EXCEPT !.ran = TRUE, !.prevOK = last.ok]
       ELSE \E conv \in ConvOutcomes :
              \E r \in {RefreshBody(m_inputs0, din, m_parameters,
                                    SetupEmptySparseAnalogOutputWaveform, conv)} :
                  \E diff \in SignedSubOutcomes(r.loop.far_right, r.loop.far_left) :
                      /\ waveform' = [null |-> FALSE, offsets |-> r.loop.offsets,
                                      durations |-> r.loop.durations,
                                      samples |-> r.loop.samples]
                      /\ m_value' = Scalar(RMul(r.fs_per_pixel, Rat(diff)))
                      /\ last' = [ran |-> TRUE, ok |-> TRUE, prevOK |-> last.ok,
                                  paramsRead |-> TRUE, eye |-> din,
                                  vrange |-> m_inputs0.vrange,
                                  vstart |-> m_parameters.start,
                                  vend |-> m_parameters.end,
                                  start_bin |-> r.start_bin, end_bin |-> r.end_bin,
                                  rows |-> r.loop.rows, reads |-> r.loop.reads]
    /\ UNCHANGED <<m_inputs0, din, m_parameters, vc>>

----------------------------------------------------------------------------
\* The graph around the filter: binding, upstream data, parameters

\* An input is bound only when ValidateChannel accepts it; a null stream
\* unbinds; a rejected stream leaves the binding as it was.
SetInput ==
    /\ \E stream \in Streams, eye \in LifecycleEyes \cup {NoEye} :
          IF ValidateChannel(0, stream)
          THEN m_inputs0' = stream /\ din' = eye
          ELSE IF stream.m_channel = "NULL"
          THEN m_inputs0' = NullStream /\ din' = NoEye
          ELSE UNCHANGED <<m_inputs0, din>>
    /\ UNCHANGED <<m_parameters, waveform, m_value, last, vc>>

SetParameter ==
    /\ \E name \in {"start", "end"}, v \in LifecycleVolts :
          m_parameters' = [m_parameters EXCEPT ![name] = v]
    /\ UNCHANGED <<m_inputs0, din, waveform, m_value, last, vc>>

CallValidateChannel ==
    /\ \E i \in 0..1, stream \in Streams :
          vc' = [called |-> TRUE, i |-> i, stream |-> stream,
                 result |-> ValidateChannel(i, stream)]
    /\ UNCHANGED filterVars
    /\ UNCHANGED last

\* After construction: input 0 unbound, both parameters 0, no output yet.
Init ==
    /\ m_inputs0 = NullStream
    /\ din = NoEye
    /\ m_parameters = [start |-> 0, end |-> 0]
    /\ waveform = NullWaveform
    /\ m_value = Scalar(Rat(0))
    /\ last = NoTrace
    /\ vc = NoCall

Next == SetInput \/ SetParameter \/ CallValidateChannel \/ Refresh

Spec == Init /\ [][Next]_vars

----------------------------------------------------------------------------
\* Refresh over bounded inputs: the filter bound to an eye, its parameters
\* set, and Refresh the only step.

InitRefresh ==
    /\ \E c \in RefreshCases :
          /\ m_inputs0 = c.stream
          /\ din = c.eye
          /\ m_parameters = c.params
    /\ waveform = NullWaveform
    /\ m_value = Scalar(Rat(0))
    /\ last = NoTrace
    /\ vc = NoCall

NextRefresh == Refresh

SpecRefresh == InitRefresh /\ [][NextRefresh]_vars

----------------------------------------------------------------------------
\* Vocabulary of the properties, stated on the record of the latest Refresh

Ok == last.ran /\ last.ok

Hit(v) == v > ber_max

CellOf(i, x) == last.eye.data[i * last.eye.width + x]

Centre == last.eye.width \div 2

TimePerColumn == Norm(2 * last.eye.uiWidth, last.eye.width)

Columns(n) == RMul(TimePerColumn, Rat(n))

SetMax(S) == CHOOSE m \in S : \A o \in S : o <= m

SetMin(S) == CHOOSE m \in S : \A o \in S : m <= o

Scanned == 1..Len(last.rows)

SortedThresholds == SortVoltages(Volts(last.vstart), Volts(last.vend))

BottomVolts == VoltsAtBottom(Volts(last.eye.center), Volts(last.vrange))

TopVolts == RAdd(BottomVolts, Volts(last.vrange))

----------------------------------------------------------------------------
\* C1: whenever the latest Refresh ran without valid inputs, the waveform of
\* stream 0 is null and the scalar of stream 1 is NaN, whatever earlier calls
\* left, and that call read neither the raster nor the parameters.
C1_MissingInputClearsOutputs ==
    (last.ran /\ ~last.ok) =>
        /\ waveform.null
        /\ m_value.nan
        /\ last.reads = {}
        /\ ~last.paramsRead

\* A failed Refresh that follows a successful one
C1_Witness == last.ran /\ ~last.ok /\ last.prevOK /\ waveform.null /\ m_value.nan

\* C2: the row of either threshold lies in [0, height-1]; a threshold below
\* the bottom voltage maps to row 0, one above the top voltage to height-1.
C2_ThresholdRowsClamped ==
    Ok =>
        \A t \in {<<SortedThresholds[1], last.start_bin>>,
                  <<SortedThresholds[2], last.end_bin>>} :
            /\ t[2] \in 0..(last.eye.height - 1)
            /\ RGt(BottomVolts, t[1]) => t[2] = 0
            /\ RGt(t[1], TopVolts) => t[2] = last.eye.height - 1

\* C3: for every pair of thresholds, in either order, inside or outside the
\* range, start_bin <= end_bin when the row loop begins.
C3_StartNotAboveEnd == Ok => last.start_bin <= last.end_bin

\* C4: the offsets, durations and samples of the output each hold exactly
\* end_bin - start_bin + 1 entries, one per row in increasing row order.
C4_OneSamplePerRow ==
    Ok =>
        LET n == last.end_bin - last.start_bin + 1
        IN  /\ Len(waveform.offsets) = n
            /\ Len(waveform.durations) = n
            /\ Len(waveform.samples) = n
            /\ Len(last.rows) = n
            /\ \A k \in Scanned : last.rows[k].i = last.start_bin + k - 1

\* C5: the offsets of the emitted samples are strictly increasing, for every
\* height and voltage range.
C5_OffsetsStrictlyIncreasing ==
    Ok =>
        \A k \in 1..(Len(waveform.offsets) - 1) :
            waveform.offsets[k] < waveform.offsets[k + 1]

\* C6: ValidateChannel(i, stream) answers true exactly for a non-null channel
\* with i = 0 and an Eye stream, and a call changes nothing of the filter.
C6_ValidateChannelPure ==
    /\ [](vc.called =>
            (vc.result <=> (/\ vc.stream.m_channel # "NULL"
                            /\ vc.i = 0
                            /\ vc.stream.type = "EYE")))
    /\ [][vc' # vc => UNCHANGED filterVars]_vars

\* An Eye stream offered at an index other than 0 is refused
C6_Witness == vc.called /\ vc.i = 1 /\ vc.stream.type = "EYE" /\ ~vc.result

\* Scenario C: rows were scanned, the raster has columns besides the centre
\* column, and in each scanned row every column but the centre is occupied.
ScenarioC ==
    /\ Ok
    /\ Len(last.rows) >= 1
    /\ last.eye.width >= 2
    /\ \A k \in Scanned : \A x \in 0..(last.eye.width - 1) :
           Hit(CellOf(last.rows[k].i, x)) <=> x # Centre

\* C7 as stated: in scenario C every row has closure_right - closure_left = 1
\* and the scalar is one column's time width.
C7_OneColumnOpening ==
    ScenarioC =>
        /\ \A k \in Scanned : last.rows[k].cright - last.rows[k].cleft = 1
        /\ m_value = Scalar(Columns(1))

\* C7 amended: in scenario C every row has closure_right - closure_left = 2
\* columns for any width of 3 or more (1 column for width 2 alone), and the
\* scalar is that many columns' time width.
C7_TwoColumnOpening ==
    ScenarioC =>
        /\ \A k \in Scanned :
               last.rows[k].cright - last.rows[k].cleft = Min(2, last.eye.width - 1)
        /\ m_value = Scalar(Columns(Min(2, last.eye.width - 1)))

\* Scenario C over two rows of an even width of at least 4
C7_Witness == ScenarioC /\ last.eye.width >= 4 /\ Len(last.rows) >= 2

\* The boundaries of row i with the centre column left out (L, R strict) or
\* counted on both sides
LeftOf(i, cols) ==
    LET S == {x \in cols : Hit(CellOf(i, x))}
    IN  IF S = {} THEN 0 ELSE SetMax(S)

RightOf(i, cols) ==
    LET S == {x \in cols : Hit(CellOf(i, x))}
    IN  IF S = {} THEN last.eye.width - 1 ELSE SetMin(S)

\* C8 as stated: closure_left is the rightmost occupied column strictly left
\* of the centre (0 when none), closure_right the leftmost occupied column
\* strictly right of it (the last column when none), and the row's value is
\* (closure_right - closure_left) * time_per_column.
C8_StrictBoundaries ==
    Ok =>
        \A k \in Scanned :
            LET row == last.rows[k]
            IN  /\ row.cleft = LeftOf(row.i, 0..(Centre - 1))
                /\ row.cright = RightOf(row.i, (Centre + 1)..(last.eye.width - 1))
                /\ waveform.samples[k] = Columns(row.cright - row.cleft)

\* C8 amended: closure_left is the rightmost occupied column at or left of the
\* centre, closure_right the leftmost occupied column at or right of it, so
\* an occupied centre column gives both the centre and a value of 0.
C8_InclusiveBoundaries ==
    Ok =>
        \A k \in Scanned :
            LET row == last.rows[k]
            IN  /\ row.cleft = LeftOf(row.i, 0..Centre)
                /\ row.cright = RightOf(row.i, Centre..(last.eye.width - 1))
                /\ waveform.samples[k] = Columns(row.cright - row.cleft)

\* A row whose centre column is occupied, with occupied columns on both sides
C8_Witness ==
    /\ Ok
    /\ last.eye.width >= 3
    /\ \E k \in Scanned :
          /\ Hit(CellOf(last.rows[k].i, Centre))
          /\ Hit(CellOf(last.rows[k].i, Centre - 1))
          /\ Hit(CellOf(last.rows[k].i, Centre + 1))
          /\ last.rows[k].cleft = Centre
          /\ last.rows[k].cright = Centre
          /\ waveform.samples[k] = Rat(0)

C10_ReadsInsideRaster ==
    Ok =>
        /\ \A c \in last.reads :
               /\ 0 <= c[1] /\ c[1] <= last.eye.height - 1
               /\ 0 <= c[2] /\ c[2] <= last.eye.width - 1
        /\ \A k \in Scanned :
               /\ last.rows[k].i <= last.eye.height - 1
               /\ 0 <= last.rows[k].cleft
               /\ last.rows[k].cleft <= Centre
               /\ Centre <= last.rows[k].cright
               /\ last.rows[k].cright <= last.eye.width - 1
        /\ \A k \in 1..Len(waveform.samples) : RGe(waveform.samples[k], Rat(0))

\* The last cell of a two-row raster of even width is read
C10_Witness ==
    /\ Ok
    /\ last.eye.height = 2
    /\ last.eye.width >= 4
    /\ <<1, last.eye.width - 1>> \in last.reads
    /\ <<0, 1>> \in last.reads

====
